---------------------------- MODULE Spec2Model ----------------------------
(***************************************************************************)
(* Model of the KYC verification service (ml-service).                     *)
(*                                                                         *)
(* Specification Spec: one /verify-kyc request after another, as handled   *)
(* by verify_kyc in src/api/routes.py - asset downloads, the three         *)
(* analyzer threads (detect_liveness, verify_face_match, verify_document)  *)
(* and the fusion of their results into the response.  SpecScheduled adds   *)
(* what the event loop guarantees.                                         *)
(*                                                                         *)
(* Specification SpecAnalyzers: the analyzers (and the anti-spoof module   *)
(* of models/anti_spoof.py) called one at a time on the inputs listed with *)
(* the bounds, detector failures included.                                 *)
(*                                                                         *)
(* Specification SpecMetrics: threads in the methods of MetricsCollector   *)
(* (utils/metrics.py), one step per lock operation, load and store.        *)
(*                                                                         *)
(* Specifications SpecRateLimit and SpecRateLimitFaulty: concurrent        *)
(* requests in RateLimitMiddleware (api/middleware.py), one step per       *)
(* await, the second with failing redis commands and a raising handler.    *)
(*                                                                         *)
(* Specification SpecHandles: threads in the get_*_model dependencies of   *)
(* api/routes.py, one step per statement.                                  *)
(*                                                                         *)
(* Numbers: every score is a fixed-point integer, ONE standing for 1.0.    *)
(* All inputs are multiples of ONE/100, which makes every division of the  *)
(* model exact; the rounding of binary floating point is not modelled.     *)
(* Python dicts are records; d.get(k, default) is Get(d, k, default).      *)
(***************************************************************************)
EXTENDS Integers, Sequences, FiniteSets, TLC

ONE == 1000000

Pct(p) == p * (ONE \div 100)

Min(a, b) == IF a <= b THEN a ELSE b

Max(a, b) == IF a >= b THEN a ELSE b

RECURSIVE SeqSum(_)
SeqSum(s) == IF s = <<>> THEN 0 ELSE Head(s) + SeqSum(Tail(s))

RECURSIVE SeqMax(_)
SeqMax(s) == IF Len(s) = 1 THEN s[1] ELSE Max(Head(s), SeqMax(Tail(s)))

Contains(s, x) == \E i \in 1..Len(s) : s[i] = x

(***************************************************************************)
(* Python values whose type decides what list.extend does with them.       *)
(***************************************************************************)
PyNone == [py |-> "None"]

Chars(s) ==
    CASE s = "printed_photo" ->
           <<"p", "r", "i", "n", "t", "e", "d", "_", "p", "h", "o", "t", "o">>
      [] s = "screen_replay" ->
           <<"s", "c", "r", "e", "e", "n", "_", "r", "e", "p", "l", "a", "y">>
      [] s = "mask" -> <<"m", "a", "s", "k">>
      [] s = "3d_mask" -> <<"3", "d", "_", "m", "a", "s", "k">>

PyStr(s) == [py |-> "str", s |-> s]

PyList(l) == [py |-> "list", items |-> l]

\* dict.get(key, default)
Get(d, k, default) == IF k \in DOMAIN d THEN d[k] ELSE default

\* list.extend(v): a list is appended item by item, a str character by
\* character, and None is not iterable (TypeError).
Extend(lst, v) ==
    CASE v.py = "list" -> [raised |-> FALSE, val |-> lst \o v.items]
      [] v.py = "str"  -> [raised |-> FALSE, val |-> lst \o Chars(v.s)]
      [] v.py = "None" -> [raised |-> TRUE, val |-> lst]


(***************************************************************************)
(* Liveness analyzer: models/liveness_detection.py                         *)
(* An image is what the pixel analysis measures on it: texture_score       *)
(* (entropy / 8, capped at 1), skin_ratio, edge_density, reflection_ratio, *)
(* live_prob (softmax output of the network), whether it is readable       *)
(* (cv2.cvtColor succeeds), the detectors whose body raises on it          *)
(* (failing), and, when a challenge and frames come with it (challenged),  *)
(* the score the challenge analysis gives (challenge_response).            *)
(***************************************************************************)
\* Mutation of analyze_texture: the except clause returns 0.0.
AnalyzeTextureFailingToZero(image) ==
    IF "texture" \in image.failing THEN 0 ELSE image.texture_score

analyze_texture(image) ==
    IF "texture" \in image.failing THEN Pct(50) ELSE image.texture_score

\* Mutation of analyze_color_space: the best band scores 0.9.
AnalyzeColorSpaceScoringHigher(image) ==
    IF "color" \in image.failing THEN Pct(50)
    ELSE IF Pct(15) <= image.skin_ratio /\ image.skin_ratio <= Pct(40) THEN Pct(90)
    ELSE IF Pct(10) <= image.skin_ratio /\ image.skin_ratio <= Pct(50) THEN Pct(50)
    ELSE Pct(20)

analyze_color_space(image) ==
    IF "color" \in image.failing THEN Pct(50)
    ELSE IF Pct(15) <= image.skin_ratio /\ image.skin_ratio <= Pct(40) THEN Pct(80)
    ELSE IF Pct(10) <= image.skin_ratio /\ image.skin_ratio <= Pct(50) THEN Pct(50)
    ELSE Pct(20)

analyze_edges(image) ==
    IF "edge" \in image.failing THEN Pct(50)
    ELSE IF Pct(5) <= image.edge_density /\ image.edge_density <= Pct(20) THEN Pct(80)
    ELSE IF Pct(2) <= image.edge_density /\ image.edge_density <= Pct(30) THEN Pct(50)
    ELSE Pct(20)

detect_reflections(image) ==
    IF "reflection" \in image.failing THEN 0 ELSE image.reflection_ratio

analyze_challenge(image) ==
    IF "challenge" \in image.failing THEN Pct(50) ELSE image.challenge_response

model_based_detection(image) ==
    IF "model" \in image.failing THEN Pct(50) ELSE image.live_prob

\* Mutation of detect_spoof_type: the reflection rule tried first.
DetectSpoofTypeReflectionFirst(texture_score, color_score, edge_score, reflection_score) ==
    IF reflection_score > Pct(10) THEN PyStr("screen_replay")
    ELSE IF edge_score < Pct(30) /\ texture_score < Pct(30) THEN PyStr("printed_photo")
    ELSE IF color_score < Pct(30) THEN PyStr("mask")
    ELSE IF texture_score > Pct(80) /\ color_score > Pct(80) THEN PyStr("3d_mask")
    ELSE PyNone

\* Returns a Python str or None.
detect_spoof_type(texture_score, color_score, edge_score, reflection_score) ==
    IF edge_score < Pct(30) /\ texture_score < Pct(30) THEN PyStr("printed_photo")
    ELSE IF reflection_score > Pct(10) THEN PyStr("screen_replay")
    ELSE IF color_score < Pct(30) THEN PyStr("mask")
    ELSE IF texture_score > Pct(80) /\ color_score > Pct(80) THEN PyStr("3d_mask")
    ELSE PyNone

\* 1 - min(5 * np.var(scores), 1), floored at 0.  np.var is the population
\* variance; it is computed here on hundredths, a[i] = scores[i] / (ONE/100):
\* 5 * var * ONE = 500 * (K * sum(a^2) - sum(a)^2) / K^2.
calculate_confidence(scores) ==
    LET K == Len(scores)
        a == [i \in 1..K |-> scores[i] \div Pct(1)]
        sq == [i \in 1..K |-> a[i] * a[i]]
        variance5 == (500 * (K * SeqSum(sq) - SeqSum(a) * SeqSum(a))) \div (K * K)
    IN Max(ONE - Min(variance5, ONE), 0)

\* Mutation of liveness_weights: the plain mean of the five scores.
UniformLivenessWeights == <<20, 20, 20, 20, 20>>

liveness_weights == <<25, 20, 20, 15, 20>>

WeightedLiveness(scores) ==
    SeqSum([i \in 1..Len(scores) |-> scores[i] * liveness_weights[i]]) \div 100

\* detect_liveness(image, challenge_type, temporal_data).  verify_kyc passes
\* neither challenge nor frames, so challenge_score stays 0.5 there;
\* self.model is never None after __init__.
detect_liveness(image) ==
    IF ~image.readable
    THEN [liveness_score |-> 0, is_live |-> FALSE, confidence |-> 0,
          error |-> "liveness_error"]
    ELSE LET texture_score == analyze_texture(image)
             color_score == analyze_color_space(image)
             edge_score == analyze_edges(image)
             reflection_score == detect_reflections(image)
             challenge_score == IF image.challenged THEN analyze_challenge(image)
                                ELSE Pct(50)
             scores == <<texture_score, color_score, edge_score,
                         ONE - reflection_score, challenge_score>>
             model_score == model_based_detection(image)
             liveness_score == (WeightedLiveness(scores) + model_score) \div 2
         IN [liveness_score |-> liveness_score,
             is_live |-> liveness_score >= Pct(70),
             confidence |-> calculate_confidence(scores),
             spoof_type |-> detect_spoof_type(texture_score, color_score,
                                              edge_score, reflection_score),
             metadata |-> [texture_score |-> texture_score,
                           color_score |-> color_score,
                           edge_score |-> edge_score,
                           reflection_score |-> reflection_score,
                           challenge_score |-> challenge_score,
                           model_score |-> model_score]]

(***************************************************************************)
(* Face-match analyzer: models/face_recognition.py                         *)
(* A face image is the list of quality scores of the faces detect_faces    *)
(* finds in it; embeddable says whether extract_embeddings yields one.     *)
(***************************************************************************)
\* A comparison is the cosine similarity of the two embeddings and the step
\* that raises, if one does: "compare" is a statement inside compare_faces
\* (its own except clause returns 0.0), "result" is a statement of
\* verify_face_match after the comparison (caught by its except clause).
\* (cosine + 1) / 2
compare_faces(comparison) ==
    IF comparison.fault = "compare" THEN 0
    ELSE (comparison.cosine + ONE) \div 2

verify_face_match(selfie, id, comparison, threshold) ==
    LET failed(msg) == [match_score |-> 0, is_match |-> FALSE, confidence |-> 0,
                        error |-> msg]
    IN IF selfie.faces = <<>> \/ id.faces = <<>>
       THEN failed("No faces detected in one or both images")
       ELSE IF ~selfie.embeddable \/ ~id.embeddable
       THEN failed("Failed to extract face embeddings")
       ELSE LET similarity == compare_faces(comparison)
                confidence == Min(SeqMax(selfie.faces), SeqMax(id.faces))
            IN IF comparison.fault = "result"
               THEN failed("face_error")
               ELSE [match_score |-> similarity,
                     is_match |-> similarity >= threshold,
                     confidence |-> confidence,
                     distance |-> ONE - similarity]

FACE_MATCH_THRESHOLD == Pct(60)

(***************************************************************************)
(* Document analyzer: models/document_verification.py                      *)
(* A document image is its blur_score, the blend of its other quality      *)
(* metrics (other_quality) and its tampering_score; a document is its      *)
(* images (the front, then the back when there is one), their consistency  *)
(* score, the detected type, the parsed fields (the keys of                *)
(* extracted_data) and how its dates read, and whether it is readable      *)
(* (preprocessing and OCR succeed).                                        *)
(***************************************************************************)
document_fields(document_type) ==
    CASE document_type = "passport" ->
           {"document_number", "surname", "given_names", "nationality",
            "dob", "expiry", "sex"}
      [] document_type = "driver_license" ->
           {"license_number", "name", "address", "dob", "expiry", "class"}
      [] document_type = "id_card" ->
           {"id_number", "name", "dob", "expiry", "address"}
      [] OTHER -> {}

\* 0.4 * blur + 0.2 * brightness + 0.2 * contrast + 0.2 * sharpness, the last
\* three taken together as 0.6 * other_quality; mean over the images present.
calculate_document_quality(images) ==
    IF images = <<>> THEN 0
    ELSE SeqSum([i \in 1..Len(images) |->
                   (40 * images[i].blur_score + 60 * images[i].other_quality)
                       \div 100]) \div Len(images)

detect_fraud_indicators(doc) ==
    LET required == document_fields(doc.document_type)
        front == doc.images[1]
        blurry == IF front.blur_score < Pct(30) THEN <<"blurry_image">> ELSE <<>>
        missing_name ==
            IF "name" \in required /\ "name" \notin doc.fields
            THEN <<"missing_name">> ELSE <<>>
        missing_number ==
            IF "document_number" \in required /\ "document_number" \notin doc.fields
            THEN <<"missing_document_number">> ELSE <<>>
        dates ==
            IF "expiry_date" \notin doc.fields THEN <<>>
            ELSE IF doc.expiry = "unparsable" THEN <<"invalid_date_format">>
            ELSE IF doc.expiry = "past" THEN <<"expired_document">>
            ELSE <<>>
        tampering ==
            IF front.tampering_score > Pct(70)
            THEN <<"possible_tampering">> ELSE <<>>
        sides ==
            IF Len(doc.images) > 1 /\ doc.consistency < Pct(50)
            THEN <<"inconsistent_document_sides">> ELSE <<>>
    IN blurry \o missing_name \o missing_number \o dates \o tampering \o sides

critical_indicators ==
    {"expired_document", "missing_document_number", "missing_name",
     "possible_tampering"}

\* Mutation of validate_document: the ceiling on the indicators is < 2.
ValidateDocumentStrictCeiling(doc, fraud_indicators, quality_score, document_type) ==
    IF \E i \in 1..Len(fraud_indicators) : fraud_indicators[i] \in critical_indicators
    THEN FALSE
    ELSE IF quality_score < Pct(40) THEN FALSE
    ELSE IF \E f \in {"name", "document_number"} :
              f \in document_fields(document_type) /\ f \notin doc.fields
    THEN FALSE
    ELSE IF "date_of_birth" \in doc.fields /\ doc.dob = "future" THEN FALSE
    ELSE Len(fraud_indicators) < 2

validate_document(doc, fraud_indicators, quality_score, document_type) ==
    IF \E i \in 1..Len(fraud_indicators) : fraud_indicators[i] \in critical_indicators
    THEN FALSE
    ELSE IF quality_score < Pct(40) THEN FALSE
    ELSE IF \E f \in {"name", "document_number"} :
              f \in document_fields(document_type) /\ f \notin doc.fields
    THEN FALSE
    ELSE IF "date_of_birth" \in doc.fields /\ doc.dob = "future" THEN FALSE
    ELSE Len(fraud_indicators) <= 2

verify_document(doc) ==
    IF ~doc.readable
    THEN [is_valid |-> FALSE, error |-> "document_error",
          fraud_indicators |-> <<"verification_failed">>]
    ELSE LET quality_score == calculate_document_quality(doc.images)
             fraud_indicators == detect_fraud_indicators(doc)
         IN [is_valid |-> validate_document(doc, fraud_indicators, quality_score,
                                            doc.document_type),
             document_type |-> doc.document_type,
             extracted_data |-> doc.fields,
             quality_score |-> quality_score,
             fraud_indicators |-> fraud_indicators]


(***************************************************************************)
(* Anti-spoof module: models/anti_spoof.py                                 *)
(* A face region is, for each detection method, the score its pixel        *)
(* analysis computes and whether its body raises (fails), and whether the  *)
(* face_bbox given with it unpacks (bbox_ok).                              *)
(***************************************************************************)
detection_methods ==
    <<"_detect_print_attack", "_detect_screen_replay", "_detect_mask_attack",
      "_detect_3d_mask", "_detect_photo_quality">>

spoof_type_of(method) ==
    CASE method = "_detect_print_attack" -> "printed_photo"
      [] method = "_detect_screen_replay" -> "screen_replay"
      [] method = "_detect_mask_attack" -> "mask"
      [] method = "_detect_3d_mask" -> "3d_mask"
      [] method = "_detect_photo_quality" -> "photo_manipulation"

spoof_threshold_of(method) ==
    CASE method = "_detect_print_attack" -> Pct(60)
      [] method = "_detect_screen_replay" -> Pct(50)
      [] method = "_detect_mask_attack" -> Pct(60)
      [] method = "_detect_3d_mask" -> Pct(70)
      [] method = "_detect_photo_quality" -> Pct(60)

\* One detection method: its result, or the dict of its bare except clause.
detect_method(method, reading) ==
    IF reading.fails
    THEN [score |-> 0, is_spoof |-> FALSE, type |-> spoof_type_of(method)]
    ELSE [score |-> reading.score,
          is_spoof |-> reading.score > spoof_threshold_of(method),
          type |-> spoof_type_of(method)]

\* list.count(x)
Count(lst, x) == Cardinality({i \in 1..Len(lst) : lst[i] = x})

\* set(lst)
SetOf(lst) == {lst[i] : i \in 1..Len(lst)}

\* The orders in which a set of str can be iterated: the order follows the
\* hashes, which are salted anew in every interpreter process.
IterationOrders(S) ==
    {o \in [1..Cardinality(S) -> S] : \A x \in S : \E i \in DOMAIN o : o[i] = x}

\* max(iterable, key=lst.count): the first item, in iteration order, whose
\* key is the largest.
max_by_count(order, lst) ==
    order[CHOOSE i \in DOMAIN order :
            /\ \A j \in DOMAIN order : Count(lst, order[j]) <= Count(lst, order[i])
            /\ \A j \in 1..(i - 1) : Count(lst, order[j]) < Count(lst, order[i])]

RECURSIVE Flagged(_)
\* indicators: the types of the method results with is_spoof, in method order.
Flagged(method_results) ==
    IF method_results = <<>> THEN <<>>
    ELSE (IF Head(method_results).is_spoof THEN <<Head(method_results).type>>
          ELSE <<>>) \o Flagged(Tail(method_results))

\* detect_spoof(image, face_bbox, temporal_frames); set_order is the order
\* in which set(indicators) is iterated.
detect_spoof(face, set_order) ==
    IF ~face.bbox_ok
    THEN [is_spoof |-> FALSE, error |-> "spoof_error"]
    ELSE LET method_results ==
                 [i \in 1..Len(detection_methods) |->
                    detect_method(detection_methods[i],
                                  face.readings[detection_methods[i]])]
             scores == [i \in 1..Len(method_results) |-> method_results[i].score]
             indicators == Flagged(method_results)
             spoof_score == SeqSum(scores) \div Len(scores)
         IN [is_spoof |-> spoof_score > Pct(70),
             spoof_type |-> IF indicators # <<>>
                            THEN PyStr(max_by_count(set_order, indicators))
                            ELSE PyNone,
             confidence |-> spoof_score,
             scores |-> scores,
             indicators |-> indicators]

(***************************************************************************)
(* The orchestrator and the fusion: verify_kyc in api/routes.py            *)
(***************************************************************************)
\* Mutation of gather_downloads: the downloads gathered with
\* return_exceptions=True, so a failed download is handed on as a result.
GatherDownloadsKeepingExceptions(states) ==
    IF \A t \in DOMAIN states : states[t] \in {"none", "ok", "failed"}
    THEN "returned"
    ELSE "pending"

\* asyncio.gather(*tasks): raises as soon as one task has failed, returns
\* once all have results.  states maps each task to "none" (not part of the
\* call), "pending", "ok" or "failed".
gather_downloads(states) ==
    IF \E t \in DOMAIN states : states[t] = "failed" THEN "raised"
    ELSE IF \A t \in DOMAIN states : states[t] \in {"none", "ok"} THEN "returned"
    ELSE "pending"

\* Mutation of gather_verifications: return_exceptions left out, so the first
\* failed analyzer task ends the wait.
GatherVerificationsRaising(states) ==
    IF \E t \in DOMAIN states : states[t] = "failed" THEN "raised"
    ELSE IF \A t \in DOMAIN states : states[t] \in {"none", "ok"} THEN "returned"
    ELSE "pending"

\* asyncio.gather(*tasks, return_exceptions=True): returns once every task
\* has a result or an exception, and never raises.
gather_verifications(states) ==
    IF \A t \in DOMAIN states : states[t] \in {"none", "ok", "failed"}
    THEN "returned"
    ELSE "pending"

\* The dict put in place of a task's exception.
degraded_result ==
    [liveness_score |-> 0, is_live |-> FALSE, match_score |-> 0,
     is_match |-> FALSE, is_valid |-> FALSE,
     fraud_indicators |-> <<"verification_failed">>]

handle_exception(t) == IF t.st = "failed" THEN degraded_result ELSE t.val

fraud_score_of(fraud_indicators) ==
    Min((Len(fraud_indicators) * ONE) \div 10, ONE)

\* Mutation of overall_score_of: the match weight 0.5 instead of 0.4.
OverallScoreOverweighted(liveness_score, match_score, document_quality_score, fraud_score) ==
    (30 * liveness_score + 50 * match_score + 20 * document_quality_score
        + 10 * (ONE - fraud_score)) \div 100

\* Mutation of overall_score_of: the fraud score added instead of its
\* complement.
OverallScoreAddingFraud(liveness_score, match_score, document_quality_score, fraud_score) ==
    (30 * liveness_score + 40 * match_score + 20 * document_quality_score
        + 10 * fraud_score) \div 100

\* Mutation of overall_score_of: the complement taken of the liveness score
\* as it is of the fraud score.
OverallScoreComplementingLiveness(liveness_score, match_score, document_quality_score, fraud_score) ==
    (30 * (ONE - liveness_score) + 40 * match_score + 20 * document_quality_score
        + 10 * (ONE - fraud_score)) \div 100

overall_score_of(liveness_score, match_score, document_quality_score, fraud_score) ==
    (30 * liveness_score + 40 * match_score + 20 * document_quality_score
        + 10 * (ONE - fraud_score)) \div 100

\* Mutation of status_of: a missed liveness or match gate rejects.
StatusRejectingMissedGate(overall_score, liveness_score, match_score) ==
    IF overall_score >= Pct(80)
    THEN IF liveness_score >= Pct(70) /\ match_score >= Pct(60)
         THEN "approved" ELSE "rejected"
    ELSE IF overall_score >= Pct(60) THEN "manual_review"
    ELSE "rejected"

status_of(overall_score, liveness_score, match_score) ==
    IF overall_score >= Pct(80) /\ liveness_score >= Pct(70)
       /\ match_score >= Pct(60)
    THEN "approved"
    ELSE IF overall_score >= Pct(60) THEN "manual_review"
    ELSE "rejected"

\* The indicator list: fraud_indicators = []; .extend(liveness spoof_type);
\* .extend(document fraud_indicators).
collect_fraud_indicators(liveness_result, document_result) ==
    LET first == Extend(<<>>, Get(liveness_result, "spoof_type", PyList(<<>>)))
    IN IF first.raised THEN first
       ELSE Extend(first.val,
                   PyList(Get(document_result, "fraud_indicators", <<>>)))

\* Lines 283-309: the locals of verify_kyc after the status is determined,
\* or raised when a statement on the way raises.
fuse(liveness_result, face_match_result, document_result) ==
    LET liveness_score == Get(liveness_result, "liveness_score", 0)
        match_score == Get(face_match_result, "match_score", 0)
        document_quality_score == Get(document_result, "quality_score", 0)
        collected == collect_fraud_indicators(liveness_result, document_result)
        fraud_indicators == collected.val
        fraud_score == fraud_score_of(fraud_indicators)
        overall_score == overall_score_of(liveness_score, match_score,
                                          document_quality_score, fraud_score)
    IN IF collected.raised
       THEN [raised |-> TRUE, liveness_score |-> liveness_score,
             match_score |-> match_score,
             document_quality_score |-> document_quality_score]
       ELSE [raised |-> FALSE, liveness_score |-> liveness_score,
             match_score |-> match_score,
             document_quality_score |-> document_quality_score,
             fraud_indicators |-> fraud_indicators,
             fraud_score |-> fraud_score,
             overall_score |-> overall_score,
             status |-> status_of(overall_score, liveness_score, match_score),
             confidence |-> Min(Get(liveness_result, "confidence", 0),
                                Get(face_match_result, "confidence", 0))]

InUnit(x) == 0 <= x /\ x <= ONE

\* KYCVerificationResponse(...): every Field(..., ge=0.0, le=1.0) is validated
\* on construction.
KYCVerificationResponse(f) ==
    IF InUnit(f.liveness_score) /\ InUnit(f.match_score) /\ InUnit(f.fraud_score)
       /\ InUnit(f.document_quality_score) /\ InUnit(f.overall_score)
       /\ InUnit(f.confidence)
    THEN [kind |-> "verdict",
          liveness_score |-> f.liveness_score,
          match_score |-> f.match_score,
          fraud_score |-> f.fraud_score,
          document_quality_score |-> f.document_quality_score,
          overall_score |-> f.overall_score,
          status |-> f.status,
          reasons |-> f.fraud_indicators,
          confidence |-> f.confidence]
    ELSE [kind |-> "error", status_code |-> 500]

\* except Exception as e: raise HTTPException(status_code=500, ...)
HTTPException500 == [kind |-> "error", status_code |-> 500]

(***************************************************************************)
(* Bounds of the model: what the analyzers can be shown.                   *)
(***************************************************************************)
MaxFaces == 2

Assets == {"selfie", "id_front", "id_back"}

Analyzers == {"liveness", "face", "document"}

UnreadableSelfie ==
    [readable |-> FALSE, texture_score |-> 0, skin_ratio |-> 0,
     edge_density |-> 0, reflection_ratio |-> 0, live_prob |-> 0,
     failing |-> {}, challenged |-> FALSE, challenge_response |-> Pct(50)]

\* The selfies of a /verify-kyc request: no challenge comes with them.
SelfieImages ==
    {UnreadableSelfie} \cup
    [readable : {TRUE},
     texture_score : {Pct(20), Pct(90)},
     skin_ratio : {Pct(5), Pct(30)},
     edge_density : {Pct(1), Pct(10)},
     reflection_ratio : {Pct(5), Pct(20)},
     live_prob : {Pct(50), ONE},
     failing : {{}},
     challenged : {FALSE},
     challenge_response : {Pct(50)}]

FaceQualities == {Pct(50), Pct(90)}

FaceLists == UNION {[1..n -> FaceQualities] : n \in 0..MaxFaces}

FaceImages == [faces : FaceLists, embeddable : BOOLEAN]

Cosines == {0, ONE}

Comparisons == [cosine : Cosines, fault : {"none", "compare", "result"}]

FrontImages ==
    [blur_score : {Pct(10), ONE}, other_quality : {ONE},
     tampering_score : {Pct(50), Pct(80)}]

BackImage == [blur_score |-> ONE, other_quality |-> ONE, tampering_score |-> Pct(50)]

AllFields == {"name", "document_number", "expiry_date", "date_of_birth"}

Documents(has_back) ==
    [readable : BOOLEAN,
     images : {IF has_back THEN <<f, BackImage>> ELSE <<f>> : f \in FrontImages},
     consistency : IF has_back THEN {Pct(20), Pct(90)} ELSE {ONE},
     document_type : {"passport", "id_card"},
     fields : {{}, AllFields},
     expiry : {"future", "past"},
     dob : {"past"}]

\* What the analyzers can be shown when they are called directly.
DetectorNames == {"texture", "color", "edge", "reflection", "challenge", "model"}

FailingSets == {{}} \cup {{d} : d \in DetectorNames} \cup {DetectorNames}

LivenessImages ==
    {UnreadableSelfie} \cup
    [readable : {TRUE},
     texture_score : {Pct(20), Pct(80), Pct(90)},
     skin_ratio : {Pct(5), Pct(30)},
     edge_density : {Pct(1), Pct(10)},
     reflection_ratio : {Pct(5), Pct(20)},
     live_prob : {Pct(50), ONE},
     failing : FailingSets,
     challenged : BOOLEAN,
     challenge_response : {Pct(30), Pct(80)}]

ScoreGrid == {Pct(5), Pct(10), Pct(20), Pct(30), Pct(50), Pct(80), Pct(90)}

MethodNames == {detection_methods[i] : i \in 1..Len(detection_methods)}

Readings == [score : {Pct(20), Pct(80)}, fails : BOOLEAN]

FaceRegions == [bbox_ok : BOOLEAN, readings : [MethodNames -> Readings]]

\* The values FACE_MATCH_THRESHOLD is configured with (the environment
\* variable of the same name), and the face-match results under each.
Thresholds == {FACE_MATCH_THRESHOLD, Pct(90)}

ThresholdComparisons ==
    [cosine : Cosines \cup {Pct(50)}, fault : {"none", "compare", "result"}]

FaceMatchResultsAt(threshold) ==
    {verify_face_match(selfie, id, comparison, threshold) :
        selfie \in FaceImages, id \in FaceImages,
        comparison \in ThresholdComparisons}

\* What _validate_document can be called with: the keys of extracted_data and
\* how its date of birth reads, the indicator list, the quality score and
\* the document type.
ExtractedData ==
    [fields : SUBSET {"name", "document_number", "date_of_birth"},
     dob : {"past", "future", "unparsable"}]

IndicatorLists ==
    {<<>>, <<"blurry_image">>, <<"blurry_image", "invalid_date_format">>,
     <<"blurry_image", "invalid_date_format", "inconsistent_document_sides">>,
     <<"expired_document">>, <<"missing_name">>, <<"missing_document_number">>,
     <<"blurry_image", "possible_tampering">>}

QualityScores == {Pct(30), Pct(40), Pct(90)}

DocumentTypes == {"passport", "driver_license", "id_card", "unknown"}

\* The dicts the three analyzers can hand to the fusion.
LivenessResults == {detect_liveness(image) : image \in SelfieImages}

FaceMatchResults ==
    {verify_face_match(selfie, id, comparison, FACE_MATCH_THRESHOLD) :
        selfie \in FaceImages, id \in FaceImages, comparison \in Comparisons}

DocumentResults ==
    {verify_document(doc) : doc \in Documents(TRUE) \cup Documents(FALSE)}

\* The metrics collector (utils/metrics.py) and the threads that use it.
MaxThreads == 2

MaxCalls == 2

MetricThreads == 1..MaxThreads

ModelNames == {"face_recognition", "liveness_detection"}

\* ModelMetrics(): the counters of a model; present says whether the
\* defaultdict has the key.  The processing times are left out.
NoModelMetrics ==
    [present |-> FALSE, total_inferences |-> 0, success_count |-> 0,
     error_count |-> 0]

Unlocked == 0

NoObservation == [seen |-> FALSE]

IdleWorker ==
    [pc |-> "idle", op |-> "none", model_name |-> "none", success |-> TRUE,
     loaded |-> 0, pending |-> {}, observed |-> NoObservation]

\* Mutation of uses_lock: record_inference without "with self.lock".
UsesLockExceptRecording(op) ==
    op \in {"get_model_metrics", "get_all_metrics", "get_health_status", "reset"}

\* The methods whose body runs inside "with self.lock" (get_health_status
\* through the get_all_metrics it calls).
uses_lock(op) ==
    op \in {"record_inference", "get_model_metrics", "get_all_metrics",
            "get_health_status", "reset"}

\* The rate limiter (api/middleware.py): the requests that arrive, the
\* clients they come from, and the limit, here RATE_LIMIT_PER_MINUTE=2 in
\* the environment.
MaxRequests == 3

Requests == 1..MaxRequests

ClientIds == {"ip:10.0.0.1", "api_key:k"}

RATE_LIMIT_PER_MINUTE == 2

NoKey == [exists |-> FALSE, value |-> 0, expires |-> FALSE]

\* redis GET of a missing key gives None.
RedisNone == -1

\* What redis TTL answers for a key without expiry and for a missing key.
TTL_NO_EXPIRY == -1

TTL_NO_KEY == -2

WINDOW_SECONDS == 60

rate_limit_exempt_paths == {"/health", "/metrics", "/docs", "/redoc", "/openapi.json"}

RequestPaths == {"/health", "/api/v1/verify"}

NoRequest ==
    [pc |-> "idle", path |-> "none", client_id |-> "none", current |-> RedisNone,
     retry_after |-> 0, calls |-> 0, outcome |-> "none"]

\* The model singletons (api/routes.py) and the threads running the
\* get_*_model dependencies.
MaxCallers == 2

Callers == 1..MaxCallers

ModelKinds == {"face_model", "liveness_model", "document_model"}

PyNoneHandle == 0

NoCaller == [pc |-> "idle", kind |-> "none", instance |-> PyNoneHandle,
             received |-> PyNoneHandle]

(***************************************************************************)
(* State                                                                   *)
(***************************************************************************)
VARIABLES
    pc,         \* where verify_kyc stands: idle, downloading, analyzing, done, error
    request,    \* the KYCVerificationRequest: whether id_back_url is given
    download,   \* state of each download_image task
    task,       \* state and result of each analyzer thread
    results,    \* the results list after the exceptions are replaced
    fusion,     \* the locals computed by lines 283-309
    response,   \* what the request ended with: a verdict or an HTTP error
    analysis,   \* a direct call of one analyzer: function, arguments, result
    metrics,    \* MetricsCollector.metrics: the ModelMetrics of each model name
    lock,       \* MetricsCollector.lock: the thread holding it, or nobody
    worker,     \* each thread using the collector: its call and where it stands
    calls,      \* record_inference calls returned per model since the last reset
    redis,      \* the rate-limit key of each client: value and time-to-live
    req,        \* each request in RateLimitMiddleware: where it stands
    admitted,   \* requests passed on per client since its key last expired
    handles,    \* the globals face_model, liveness_model, document_model
    constructed, \* how often each model's constructor has run
    caller      \* each thread in a get_*_model function: where it stands

orchestratorVars == <<pc, request, download, task, results, fusion, response>>

metricsVars == <<metrics, lock, worker, calls>>

limiterVars == <<redis, req, admitted>>

handleVars == <<handles, constructed, caller>>

serviceVars == <<metricsVars, limiterVars, handleVars>>

nonMetricsVars == <<orchestratorVars, analysis, limiterVars, handleVars>>

nonLimiterVars == <<orchestratorVars, analysis, metricsVars, handleVars>>

nonHandleVars == <<orchestratorVars, analysis, metricsVars, limiterVars>>

vars ==
    <<pc, request, download, task, results, fusion, response, analysis,
      serviceVars>>

NoTask == [st |-> "none"]

NoResponse == [kind |-> "none"]

NoFusion == [computed |-> FALSE]

NoAnalysis == [fn |-> "none"]

Init ==
    /\ pc = "idle"
    /\ request = [id_back_url |-> FALSE]
    /\ download = [a \in Assets |-> "none"]
    /\ task = [t \in Analyzers |-> NoTask]
    /\ results = <<>>
    /\ fusion = NoFusion
    /\ response = NoResponse
    /\ analysis = NoAnalysis
    /\ metrics = [m \in ModelNames |-> NoModelMetrics]
    /\ lock = Unlocked
    /\ worker = [t \in MetricThreads |-> IdleWorker]
    /\ calls = [m \in ModelNames |-> 0]
    /\ redis = [c \in ClientIds |-> NoKey]
    /\ req = [r \in Requests |-> NoRequest]
    /\ admitted = [c \in ClientIds |-> 0]
    /\ handles = [k \in ModelKinds |-> PyNoneHandle]
    /\ constructed = [k \in ModelKinds |-> 0]
    /\ caller = [t \in Callers |-> NoCaller]

TaskStates == [t \in Analyzers |-> task[t].st]

\* Lines 224-238: the download tasks are created and awaited.
StartRequest ==
    /\ pc = "idle"
    /\ \E has_back \in BOOLEAN :
         /\ request' = [id_back_url |-> has_back]
         /\ download' = [a \in Assets |->
                           IF a = "id_back" /\ ~has_back THEN "none" ELSE "pending"]
    /\ pc' = "downloading"
    /\ UNCHANGED <<task, results, fusion, response, analysis, serviceVars>>

\* download_image returns the decoded image.
DownloadReturns ==
    /\ pc = "downloading"
    /\ \E a \in Assets :
         /\ download[a] = "pending"
         /\ download' = [download EXCEPT ![a] = "ok"]
    /\ UNCHANGED <<pc, request, task, results, fusion, response, analysis, serviceVars>>

\* download_image raises: HTTP status other than 200, or an undecodable body.
DownloadRaises ==
    /\ pc = "downloading"
    /\ \E a \in Assets :
         /\ download[a] = "pending"
         /\ download' = [download EXCEPT ![a] = "failed"]
    /\ UNCHANGED <<pc, request, task, results, fusion, response, analysis, serviceVars>>

\* Line 238 resumes: either the exception reaches the except clause (344-346)
\* or the three analyzer threads are started (245-266).
DownloadsGathered ==
    /\ pc = "downloading"
    /\ gather_downloads(download) # "pending"
    /\ IF gather_downloads(download) = "raised"
       THEN /\ pc' = "error"
            /\ response' = HTTPException500
            /\ UNCHANGED task
       ELSE /\ pc' = "analyzing"
            /\ task' = [t \in Analyzers |-> [st |-> "pending"]]
            /\ UNCHANGED response
    /\ UNCHANGED <<request, download, results, fusion, analysis, serviceVars>>

LivenessReturns ==
    /\ pc = "analyzing"
    /\ task["liveness"].st = "pending"
    /\ \E image \in SelfieImages :
         task' = [task EXCEPT !["liveness"] =
                    [st |-> "ok", val |-> detect_liveness(image)]]
    /\ UNCHANGED <<pc, request, download, results, fusion, response, analysis, serviceVars>>

FaceMatchReturns ==
    /\ pc = "analyzing"
    /\ task["face"].st = "pending"
    /\ \E selfie \in FaceImages, id \in FaceImages, comparison \in Comparisons :
         task' = [task EXCEPT !["face"] =
                    [st |-> "ok",
                     val |-> verify_face_match(selfie, id, comparison,
                                               FACE_MATCH_THRESHOLD)]]
    /\ UNCHANGED <<pc, request, download, results, fusion, response, analysis, serviceVars>>

DocumentReturns ==
    /\ pc = "analyzing"
    /\ task["document"].st = "pending"
    /\ \E doc \in Documents(request.id_back_url) :
         task' = [task EXCEPT !["document"] =
                    [st |-> "ok", val |-> verify_document(doc)]]
    /\ UNCHANGED <<pc, request, download, results, fusion, response, analysis, serviceVars>>

\* The awaited thread ends with an exception instead of a dict.
AnalyzerRaises ==
    /\ pc = "analyzing"
    /\ \E t \in Analyzers :
         /\ task[t].st = "pending"
         /\ task' = [task EXCEPT ![t] = [st |-> "failed"]]
    /\ UNCHANGED <<pc, request, download, results, fusion, response, analysis, serviceVars>>

\* Line 266 resumes and the handler runs to its end without another await:
\* exceptions replaced (268-279), scores fused (283-309), response built
\* (315-338) or the exception turned into HTTP 500 (344-346).
AnalyzersGathered ==
    /\ pc = "analyzing"
    /\ gather_verifications(TaskStates) # "pending"
    /\ IF gather_verifications(TaskStates) = "raised"
       THEN /\ pc' = "error"
            /\ response' = HTTPException500
            /\ UNCHANGED <<results, fusion>>
       ELSE LET rs == <<handle_exception(task["liveness"]),
                        handle_exception(task["face"]),
                        handle_exception(task["document"])>>
                f == fuse(rs[1], rs[2], rs[3])
                resp == IF f.raised THEN HTTPException500
                        ELSE KYCVerificationResponse(f)
            IN /\ results' = rs
               /\ fusion' = [computed |-> TRUE, locals |-> f]
               /\ response' = resp
               /\ pc' = IF resp.kind = "verdict" THEN "done" ELSE "error"
    /\ UNCHANGED <<request, download, task, analysis, serviceVars>>

\* The response is sent; the next request finds a fresh handler.
NextRequest ==
    /\ pc \in {"done", "error"}
    /\ pc' = "idle"
    /\ request' = [id_back_url |-> FALSE]
    /\ download' = [a \in Assets |-> "none"]
    /\ task' = [t \in Analyzers |-> NoTask]
    /\ results' = <<>>
    /\ fusion' = NoFusion
    /\ response' = NoResponse
    /\ UNCHANGED <<analysis, serviceVars>>

Next ==
    \/ StartRequest
    \/ DownloadReturns
    \/ DownloadRaises
    \/ DownloadsGathered
    \/ LivenessReturns
    \/ FaceMatchReturns
    \/ DocumentReturns
    \/ AnalyzerRaises
    \/ AnalyzersGathered
    \/ NextRequest

Spec == Init /\ [][Next]_vars

\* What the scheduling guarantees: a download ends (aiohttp gives up on a
\* dead peer), and the event loop resumes the handler once the gather it
\* awaits is complete.  Nothing bounds the time an analyzer thread takes.
SpecScheduled ==
    /\ Spec
    /\ WF_vars(DownloadReturns \/ DownloadRaises)
    /\ WF_vars(DownloadsGathered)
    /\ WF_vars(AnalyzersGathered)

(***************************************************************************)
(* Specification SpecAnalyzers: the analyzers called one at a time, as the *)
(* routes and verify_kyc call them; analysis records the call.             *)
(***************************************************************************)
Call(fn, args, result) == [fn |-> fn, args |-> args, result |-> result]

CallDetectLiveness ==
    /\ analysis = NoAnalysis
    /\ \E image \in LivenessImages :
         analysis' = Call("detect_liveness", image, detect_liveness(image))
    /\ UNCHANGED <<orchestratorVars, serviceVars>>

CallDetectSpoofType ==
    /\ analysis = NoAnalysis
    /\ \E texture_score \in ScoreGrid, color_score \in ScoreGrid,
          edge_score \in ScoreGrid, reflection_score \in ScoreGrid :
         analysis' =
             Call("_detect_spoof_type",
                  [texture_score |-> texture_score, color_score |-> color_score,
                   edge_score |-> edge_score,
                   reflection_score |-> reflection_score],
                  detect_spoof_type(texture_score, color_score, edge_score,
                                    reflection_score))
    /\ UNCHANGED <<orchestratorVars, serviceVars>>

CallVerifyFaceMatch ==
    /\ analysis = NoAnalysis
    /\ \E selfie \in FaceImages, id \in FaceImages, comparison \in Comparisons :
         analysis' =
             Call("verify_face_match",
                  [selfie |-> selfie, id |-> id, comparison |-> comparison],
                  verify_face_match(selfie, id, comparison, FACE_MATCH_THRESHOLD))
    /\ UNCHANGED <<orchestratorVars, serviceVars>>

CallVerifyDocument ==
    /\ analysis = NoAnalysis
    /\ \E doc \in Documents(TRUE) \cup Documents(FALSE) :
         analysis' = Call("verify_document", doc, verify_document(doc))
    /\ UNCHANGED <<orchestratorVars, serviceVars>>

CallValidateDocument ==
    /\ analysis = NoAnalysis
    /\ \E doc \in ExtractedData, fraud_indicators \in IndicatorLists,
          quality_score \in QualityScores, document_type \in DocumentTypes :
         analysis' =
             Call("_validate_document",
                  [extracted_data |-> doc, fraud_indicators |-> fraud_indicators,
                   quality_score |-> quality_score,
                   document_type |-> document_type],
                  validate_document(doc, fraud_indicators, quality_score,
                                    document_type))
    /\ UNCHANGED <<orchestratorVars, serviceVars>>

\* The labels the methods flag on a face region.
FlaggedLabels(face) ==
    SetOf(Flagged([i \in 1..Len(detection_methods) |->
                     detect_method(detection_methods[i],
                                   face.readings[detection_methods[i]])]))

CallDetectSpoof ==
    /\ analysis = NoAnalysis
    /\ \E face \in FaceRegions :
         \E set_order \in IterationOrders(FlaggedLabels(face)) :
             analysis' = Call("detect_spoof", face, detect_spoof(face, set_order))
    /\ UNCHANGED <<orchestratorVars, serviceVars>>

\* Lines 283-309 run on the same face-match and document results with the
\* liveness result as it is (lower) and with its liveness_score raised
\* (upper), everything else in it unchanged.
CallFusionTwice ==
    /\ analysis = NoAnalysis
    /\ \E liveness_result \in LivenessResults,
          face_match_result \in FaceMatchResults,
          document_result \in DocumentResults, raised \in ScoreGrid :
         /\ raised >= liveness_result.liveness_score
         /\ analysis' =
                Call("fusion",
                     [liveness_score |-> liveness_result.liveness_score,
                      raised |-> raised],
                     [lower |-> fuse(liveness_result, face_match_result,
                                     document_result),
                      upper |-> fuse([liveness_result EXCEPT
                                         !.liveness_score = raised],
                                     face_match_result, document_result)])
    /\ UNCHANGED <<orchestratorVars, serviceVars>>

\* Lines 283-309 run on the three results of a request handled with
\* FACE_MATCH_THRESHOLD configured as threshold.
CallFusion ==
    /\ analysis = NoAnalysis
    /\ \E threshold \in Thresholds :
         \E liveness_result \in LivenessResults,
            face_match_result \in FaceMatchResultsAt(threshold),
            document_result \in DocumentResults :
             analysis' =
                 Call("verify_kyc",
                      [threshold |-> threshold,
                       liveness_result |-> liveness_result,
                       face_match_result |-> face_match_result],
                      fuse(liveness_result, face_match_result, document_result))
    /\ UNCHANGED <<orchestratorVars, serviceVars>>

AnalysisReturns ==
    /\ analysis # NoAnalysis
    /\ analysis' = NoAnalysis
    /\ UNCHANGED <<orchestratorVars, serviceVars>>

NextAnalyzers ==
    \/ CallDetectLiveness
    \/ CallDetectSpoofType
    \/ CallVerifyFaceMatch
    \/ CallVerifyDocument
    \/ CallValidateDocument
    \/ CallDetectSpoof
    \/ CallFusionTwice
    \/ CallFusion
    \/ AnalysisReturns

SpecAnalyzers == Init /\ [][NextAnalyzers]_vars

(***************************************************************************)
(* Specification SpecMetrics: threads calling the methods of one           *)
(* MetricsCollector.  A thread takes one step at a time: acquiring the     *)
(* lock, each load and each store of a counter (+= is a load, an add and a *)
(* store), releasing the lock.                                             *)
(***************************************************************************)
\* The thread state at the call of a method: about to enter "with self.lock".
started(op, model_name, success) ==
    [IdleWorker EXCEPT !.pc = "acquire", !.op = op, !.model_name = model_name,
                       !.success = success]

RECURSIVE SumOver(_, _)
SumOver(f, S) ==
    IF S = {} THEN 0
    ELSE LET x == CHOOSE y \in S : TRUE IN f[x] + SumOver(f, S \ {x})

\* record_inference(model_name, processing_time, success) is called.
StartRecordInference ==
    /\ SumOver(calls, ModelNames)
         + Cardinality({u \in MetricThreads :
                          worker[u].op = "record_inference"}) < MaxCalls
    /\ \E t \in MetricThreads, model_name \in ModelNames, success \in BOOLEAN :
         /\ worker[t].pc = "idle"
         /\ worker' = [worker EXCEPT
                         ![t] = started("record_inference", model_name, success)]
    /\ UNCHANGED <<metrics, lock, calls, nonMetricsVars>>

StartGetModelMetrics ==
    /\ \E t \in MetricThreads, model_name \in ModelNames :
         /\ worker[t].pc = "idle"
         /\ worker' = [worker EXCEPT
                         ![t] = started("get_model_metrics", model_name, TRUE)]
    /\ UNCHANGED <<metrics, lock, calls, nonMetricsVars>>

StartGetAllMetrics ==
    /\ \E t \in MetricThreads :
         /\ worker[t].pc = "idle"
         /\ worker' = [worker EXCEPT
                         ![t] = started("get_all_metrics", "none", TRUE)]
    /\ UNCHANGED <<metrics, lock, calls, nonMetricsVars>>

\* get_health_status calls get_all_metrics first.
StartGetHealthStatus ==
    /\ \E t \in MetricThreads :
         /\ worker[t].pc = "idle"
         /\ worker' = [worker EXCEPT
                         ![t] = started("get_health_status", "none", TRUE)]
    /\ UNCHANGED <<metrics, lock, calls, nonMetricsVars>>

StartReset ==
    /\ \E t \in MetricThreads :
         /\ worker[t].pc = "idle"
         /\ worker' = [worker EXCEPT ![t] = started("reset", "none", TRUE)]
    /\ UNCHANGED <<metrics, lock, calls, nonMetricsVars>>

\* Where a method stands once it is inside "with self.lock".
first_step(w) ==
    CASE w.op = "record_inference" -> "load_total"
      [] w.op = "get_model_metrics" -> "read"
      [] w.op \in {"get_all_metrics", "get_health_status"} ->
           IF w.model_name = "none" THEN "sum" ELSE "read"
      [] w.op = "reset" -> "clear"

\* with self.lock: threading.Lock is not reentrant, the holder waits too.
AcquireLock ==
    \E t \in MetricThreads :
        /\ worker[t].pc = "acquire"
        /\ IF uses_lock(worker[t].op)
           THEN lock = Unlocked /\ lock' = t
           ELSE UNCHANGED lock
        /\ worker' = [worker EXCEPT ![t].pc = first_step(worker[t])]
        /\ UNCHANGED <<metrics, calls, nonMetricsVars>>

\* self.metrics[model_name] (the defaultdict creates the entry), then the
\* load of self.total_inferences += 1.
LoadTotal ==
    \E t \in MetricThreads :
        /\ worker[t].pc = "load_total"
        /\ metrics' = [metrics EXCEPT ![worker[t].model_name].present = TRUE]
        /\ worker' = [worker EXCEPT
                        ![t].loaded = metrics[worker[t].model_name].total_inferences,
                        ![t].pc = "store_total"]
        /\ UNCHANGED <<lock, calls, nonMetricsVars>>

StoreTotal ==
    \E t \in MetricThreads :
        /\ worker[t].pc = "store_total"
        /\ metrics' = [metrics EXCEPT
                         ![worker[t].model_name].total_inferences =
                             worker[t].loaded + 1]
        /\ worker' = [worker EXCEPT ![t].pc = "load_count"]
        /\ UNCHANGED <<lock, calls, nonMetricsVars>>

\* if success: self.success_count += 1 else: self.error_count += 1
LoadCount ==
    \E t \in MetricThreads :
        /\ worker[t].pc = "load_count"
        /\ worker' = [worker EXCEPT
                        ![t].loaded =
                            IF worker[t].success
                            THEN metrics[worker[t].model_name].success_count
                            ELSE metrics[worker[t].model_name].error_count,
                        ![t].pc = "store_count"]
        /\ UNCHANGED <<metrics, lock, calls, nonMetricsVars>>

StoreCount ==
    \E t \in MetricThreads :
        /\ worker[t].pc = "store_count"
        /\ metrics' =
             IF worker[t].success
             THEN [metrics EXCEPT ![worker[t].model_name].success_count =
                                      worker[t].loaded + 1]
             ELSE [metrics EXCEPT ![worker[t].model_name].error_count =
                                      worker[t].loaded + 1]
        /\ worker' = [worker EXCEPT ![t].pc = "release"]
        /\ UNCHANGED <<lock, calls, nonMetricsVars>>

\* get_model_metrics: self.metrics.get(model_name, ModelMetrics()) and the
\* counters read from it.
ReadModelMetrics ==
    \E t \in MetricThreads :
        /\ worker[t].pc = "read"
        /\ worker' = [worker EXCEPT
                        ![t].observed =
                            [seen |-> TRUE,
                             total_inferences |->
                                 metrics[worker[t].model_name].total_inferences,
                             success_count |->
                                 metrics[worker[t].model_name].success_count],
                        ![t].pc = "release"]
        /\ UNCHANGED <<metrics, lock, calls, nonMetricsVars>>

\* get_all_metrics: the two sums, then get_model_metrics(name) for every key,
\* called while the lock is still held.
SumAllMetrics ==
    \E t \in MetricThreads :
        /\ worker[t].pc = "sum"
        /\ LET keys == {m \in ModelNames : metrics[m].present}
           IN worker' =
                [worker EXCEPT
                   ![t].observed =
                       [seen |-> TRUE,
                        total_inferences |->
                            SumOver([m \in ModelNames |->
                                       metrics[m].total_inferences], keys),
                        success_count |->
                            SumOver([m \in ModelNames |->
                                       metrics[m].success_count], keys)],
                   ![t].pending = keys,
                   ![t].model_name = IF keys = {} THEN "none"
                                     ELSE CHOOSE m \in keys : TRUE,
                   ![t].pc = IF keys = {} THEN "release" ELSE "acquire"]
        /\ UNCHANGED <<metrics, lock, calls, nonMetricsVars>>

\* reset: self.metrics.clear()
ClearMetrics ==
    \E t \in MetricThreads :
        /\ worker[t].pc = "clear"
        /\ metrics' = [m \in ModelNames |-> NoModelMetrics]
        /\ calls' = [m \in ModelNames |-> 0]
        /\ worker' = [worker EXCEPT ![t].pc = "release"]
        /\ UNCHANGED <<lock, nonMetricsVars>>

\* The end of a "with self.lock" block.  The block of a get_model_metrics
\* called by get_all_metrics ends with the next key, or back in
\* get_all_metrics; every other block ends the call.
ReleaseLock ==
    \E t \in MetricThreads :
        /\ worker[t].pc = "release"
        /\ lock' = IF uses_lock(worker[t].op) THEN Unlocked ELSE lock
        /\ LET w == worker[t]
               rest == w.pending \ {w.model_name}
           IN IF w.pending = {}
              THEN /\ worker' = [worker EXCEPT ![t] = IdleWorker]
                   /\ calls' = IF w.op = "record_inference"
                               THEN [calls EXCEPT ![w.model_name] = @ + 1]
                               ELSE calls
              ELSE /\ worker' =
                        [worker EXCEPT
                           ![t].pending = rest,
                           ![t].model_name = IF rest = {} THEN "none"
                                             ELSE CHOOSE m \in rest : TRUE,
                           ![t].pc = IF rest = {} THEN "release" ELSE "acquire"]
                   /\ UNCHANGED calls
        /\ UNCHANGED <<metrics, nonMetricsVars>>

NextMetrics ==
    \/ StartRecordInference
    \/ StartGetModelMetrics
    \/ StartGetAllMetrics
    \/ StartGetHealthStatus
    \/ StartReset
    \/ AcquireLock
    \/ LoadTotal
    \/ StoreTotal
    \/ LoadCount
    \/ StoreCount
    \/ ReadModelMetrics
    \/ SumAllMetrics
    \/ ClearMetrics
    \/ ReleaseLock

SpecMetrics == Init /\ [][NextMetrics]_vars


(***************************************************************************)
(* RateLimitMiddleware.__call__ (api/middleware.py), one step per await.   *)
(* A request is a coroutine; the event loop may switch to another request  *)
(* at every await, and redis may expire a key between any two commands.    *)
(***************************************************************************)
key_of(r) == req[r].client_id

\* A request arrives: an exempt path goes straight to call_next (line 23),
\* any other path to the redis GET.
Arrive(r, path, client_id) ==
    /\ req[r].pc = "idle"
    /\ req' = [req EXCEPT ![r] =
                  [@ EXCEPT !.path = path, !.client_id = client_id,
                            !.pc = IF path \in rate_limit_exempt_paths
                                   THEN "exempt" ELSE "get"]]
    /\ UNCHANGED <<redis, admitted, nonLimiterVars>>

\* current = await redis.get(key), and the branch taken on it.
RedisGet(r) ==
    /\ req[r].pc = "get"
    /\ LET current == IF redis[key_of(r)].exists
                       THEN redis[key_of(r)].value ELSE RedisNone
       IN req' = [req EXCEPT ![r] =
                     [@ EXCEPT !.current = current,
                               !.pc = IF current = RedisNone THEN "setex"
                                      ELSE IF current < RATE_LIMIT_PER_MINUTE
                                           THEN "incr" ELSE "ttl"]]
    /\ UNCHANGED <<redis, admitted, nonLimiterVars>>

\* await redis.setex(key, 60, 1)
RedisSetex(r) ==
    /\ req[r].pc = "setex"
    /\ redis' = [redis EXCEPT ![key_of(r)] =
                    [exists |-> TRUE, value |-> 1, expires |-> TRUE]]
    /\ req' = [req EXCEPT ![r] = [@ EXCEPT !.pc = "call_next"]]
    /\ UNCHANGED <<admitted, nonLimiterVars>>

\* await redis.incr(key): a missing key is created at 1 with no expiry.
RedisIncr(r) ==
    /\ req[r].pc = "incr"
    /\ redis' = [redis EXCEPT ![key_of(r)] =
                    IF @.exists THEN [@ EXCEPT !.value = @ + 1]
                    ELSE [exists |-> TRUE, value |-> 1, expires |-> FALSE]]
    /\ req' = [req EXCEPT ![r] = [@ EXCEPT !.pc = "call_next"]]
    /\ UNCHANGED <<admitted, nonLimiterVars>>

\* retry_after = await redis.ttl(key), then HTTPException(429).
RedisTtl(r) ==
    /\ req[r].pc = "ttl"
    /\ req' = [req EXCEPT ![r] =
                  [@ EXCEPT !.retry_after =
                                IF ~redis[key_of(r)].exists THEN TTL_NO_KEY
                                ELSE IF redis[key_of(r)].expires
                                     THEN WINDOW_SECONDS ELSE TTL_NO_EXPIRY,
                            !.outcome = "429", !.pc = "done"]]
    /\ UNCHANGED <<redis, admitted, nonLimiterVars>>

\* return await call_next(request) at line 57, the handler answering.
CallNextReturns(r) ==
    /\ req[r].pc = "call_next"
    /\ req' = [req EXCEPT ![r] =
                  [@ EXCEPT !.calls = @ + 1, !.outcome = "response", !.pc = "done"]]
    /\ admitted' = [admitted EXCEPT ![key_of(r)] = @ + 1]
    /\ UNCHANGED <<redis, nonLimiterVars>>

\* call_next at line 57 raising HTTPException: re-raised at lines 59-60.
CallNextRaisesHTTPException(r) ==
    /\ req[r].pc = "call_next"
    /\ req' = [req EXCEPT ![r] =
                  [@ EXCEPT !.calls = @ + 1, !.outcome = "http_exception",
                            !.pc = "done"]]
    /\ admitted' = [admitted EXCEPT ![key_of(r)] = @ + 1]
    /\ UNCHANGED <<redis, nonLimiterVars>>

\* call_next at line 57 raising any other exception: caught at line 61.
CallNextRaises(r) ==
    /\ req[r].pc = "call_next"
    /\ req' = [req EXCEPT ![r] = [@ EXCEPT !.calls = @ + 1, !.pc = "rescued"]]
    /\ admitted' = [admitted EXCEPT ![key_of(r)] = @ + 1]
    /\ UNCHANGED <<redis, nonLimiterVars>>

\* A redis command raising (connection lost, timeout): caught at line 61.
RedisFails(r) ==
    /\ req[r].pc \in {"get", "setex", "incr", "ttl"}
    /\ req' = [req EXCEPT ![r] = [@ EXCEPT !.pc = "rescued"]]
    /\ UNCHANGED <<redis, admitted, nonLimiterVars>>

\* return await call_next(request) at line 64, in the except branch.
CallNextAfterError(r, outcome) ==
    /\ req[r].pc = "rescued"
    /\ req' = [req EXCEPT ![r] =
                  [@ EXCEPT !.calls = @ + 1, !.outcome = outcome, !.pc = "done"]]
    /\ admitted' = [admitted EXCEPT ![key_of(r)] =
                       IF req[r].calls = 0 THEN @ + 1 ELSE @]
    /\ UNCHANGED <<redis, nonLimiterVars>>

\* return await call_next(request) at line 23, outside the try.
CallNextExempt(r, outcome) ==
    /\ req[r].pc = "exempt"
    /\ req' = [req EXCEPT ![r] =
                  [@ EXCEPT !.calls = @ + 1, !.outcome = outcome, !.pc = "done"]]
    /\ UNCHANGED <<redis, admitted, nonLimiterVars>>

\* Redis drops a key whose time-to-live has run out: the window is over.
Expire(c) ==
    /\ redis[c].exists
    /\ redis[c].expires
    /\ redis' = [redis EXCEPT ![c] = NoKey]
    /\ admitted' = [admitted EXCEPT ![c] = 0]
    /\ UNCHANGED <<req, nonLimiterVars>>

HandlerOutcomes == {"response", "http_exception", "exception"}

\* Redis answering every command, the handler raising nothing but
\* HTTPException.
NextRateLimit ==
    \/ \E r \in Requests, path \in RequestPaths, c \in ClientIds : Arrive(r, path, c)
    \/ \E r \in Requests : RedisGet(r)
    \/ \E r \in Requests : RedisSetex(r)
    \/ \E r \in Requests : RedisIncr(r)
    \/ \E r \in Requests : RedisTtl(r)
    \/ \E r \in Requests : CallNextReturns(r)
    \/ \E r \in Requests : CallNextRaisesHTTPException(r)
    \/ \E r \in Requests, outcome \in HandlerOutcomes : CallNextExempt(r, outcome)
    \/ \E c \in ClientIds : Expire(c)

SpecRateLimit == Init /\ [][NextRateLimit]_vars

\* The same with failing redis commands and a handler raising anything.
NextRateLimitFaulty ==
    \/ \E r \in Requests, path \in RequestPaths, c \in ClientIds : Arrive(r, path, c)
    \/ \E r \in Requests : RedisGet(r)
    \/ \E r \in Requests : RedisSetex(r)
    \/ \E r \in Requests : RedisIncr(r)
    \/ \E r \in Requests : RedisTtl(r)
    \/ \E r \in Requests : CallNextReturns(r)
    \/ \E r \in Requests : CallNextRaisesHTTPException(r)
    \/ \E r \in Requests : CallNextRaises(r)
    \/ \E r \in Requests : RedisFails(r)
    \/ \E r \in Requests, outcome \in HandlerOutcomes : CallNextAfterError(r, outcome)
    \/ \E r \in Requests, outcome \in HandlerOutcomes : CallNextExempt(r, outcome)
    \/ \E c \in ClientIds : Expire(c)

SpecRateLimitFaulty == Init /\ [][NextRateLimitFaulty]_vars


(***************************************************************************)
(* get_face_model, get_liveness_model, get_document_model (api/routes.py). *)
(* They are plain functions behind Depends, so each request runs them in a *)
(* worker thread, and threads switch between any two statements.           *)
(***************************************************************************)
\* A request resolves its dependency: the thread enters get_<kind>.
CallGetter(t, kind) ==
    /\ caller[t].pc = "idle"
    /\ caller' = [caller EXCEPT ![t] = [@ EXCEPT !.kind = kind, !.pc = "check"]]
    /\ UNCHANGED <<handles, constructed, nonHandleVars>>

\* if <kind> is None:
CheckIsNone(t) ==
    /\ caller[t].pc = "check"
    /\ caller' = [caller EXCEPT ![t] =
                     [@ EXCEPT !.pc = IF handles[caller[t].kind] = PyNoneHandle
                                      THEN "construct" ELSE "return"]]
    /\ UNCHANGED <<handles, constructed, nonHandleVars>>

\* The right-hand side of the assignment: the constructor runs and makes a
\* new instance, numbered by the order of construction.
Construct(t) ==
    /\ caller[t].pc = "construct"
    /\ constructed' = [constructed EXCEPT ![caller[t].kind] = @ + 1]
    /\ caller' = [caller EXCEPT ![t] =
                     [@ EXCEPT !.instance = constructed[caller[t].kind] + 1,
                               !.pc = "assign"]]
    /\ UNCHANGED <<handles, nonHandleVars>>

\* <kind> = the new instance
AssignGlobal(t) ==
    /\ caller[t].pc = "assign"
    /\ handles' = [handles EXCEPT ![caller[t].kind] = caller[t].instance]
    /\ caller' = [caller EXCEPT ![t] = [@ EXCEPT !.pc = "return"]]
    /\ UNCHANGED <<constructed, nonHandleVars>>

\* return <kind>: the global as it stands now.
ReturnGlobal(t) ==
    /\ caller[t].pc = "return"
    /\ caller' = [caller EXCEPT ![t] =
                     [@ EXCEPT !.received = handles[caller[t].kind],
                               !.pc = "returned"]]
    /\ UNCHANGED <<handles, constructed, nonHandleVars>>

NextHandles ==
    \/ \E t \in Callers, kind \in ModelKinds : CallGetter(t, kind)
    \/ \E t \in Callers : CheckIsNone(t)
    \/ \E t \in Callers : Construct(t)
    \/ \E t \in Callers : AssignGlobal(t)
    \/ \E t \in Callers : ReturnGlobal(t)

SpecHandles == Init /\ [][NextHandles]_vars


(***************************************************************************)
(* Claims                                                                  *)
(***************************************************************************)
Statuses == {"approved", "manual_review", "rejected"}

Ended == pc \in {"done", "error"}

AssetsAcquired == \A a \in Assets : download[a] \in {"none", "ok"}

Analyzed == \A t \in Analyzers : task[t].st \in {"ok", "failed"}

\* The dict analyzer t handed back, if it handed one back.
Returned(t) == task[t].st = "ok"

\* The spoof-type label of the liveness result, <<>> when it carries none.
SpoofLabel ==
    IF Returned("liveness") /\ "spoof_type" \in DOMAIN task["liveness"].val
       /\ task["liveness"].val.spoof_type.py = "str"
    THEN <<task["liveness"].val.spoof_type.s>>
    ELSE <<>>

\* The fraud indicators the document analyzer handed back, or those of the
\* degraded result put in its place.
DocumentIndicators ==
    IF Returned("document") THEN task["document"].val.fraud_indicators
    ELSE <<"verification_failed">>

\* C1: a request whose assets were all acquired ends with a verdict whose
\* status is approved, manual_review or rejected, never with an error,
\* whatever the analyzers return or raise.
C1_AcquiredRequestEndsWithVerdict ==
    (Ended /\ AssetsAcquired) =>
        (response.kind = "verdict" /\ response.status \in Statuses)

\* C2: when the face-match task raises, the result put in its place has match
\* score 0, confidence 0 and "verification_failed" among its indicators, and
\* the request still ends with a verdict.
C2_FaceFailureStillGivesVerdict ==
    (Ended /\ task["face"].st = "failed") =>
        /\ Get(results[2], "match_score", 0) = 0
        /\ Get(results[2], "confidence", 0) = 0
        /\ Contains(Get(results[2], "fraud_indicators", <<>>), "verification_failed")
        /\ response.kind = "verdict"

\* C3: when one of the three analyzers failed, the reasons of the verdict
\* contain "verification_failed".
C3_FailureShowsInReasons ==
    (response.kind = "verdict" /\ \E t \in Analyzers : task[t].st = "failed") =>
        Contains(response.reasons, "verification_failed")

\* C4: when the download of a required asset failed, the request can only end
\* with an error, without a verdict, and no analyzer is ever started.
C4_DownloadFailureAborts ==
    (\E a \in Assets : download[a] = "failed") =>
        /\ \A t \in Analyzers : task[t].st = "none"
        /\ ~fusion.computed
        /\ pc \in {"downloading", "error"}
        /\ pc = "error" => response = HTTPException500
        /\ pc = "downloading" => response.kind = "none"

C4_Witness ==
    /\ pc = "error"
    /\ download["id_back"] = "failed"
    /\ download["selfie"] = "ok"
    /\ response.kind = "error"


\* The score analyzer t contributes to the fusion: the one in the dict it
\* handed back, 0 when the dict has none or the task raised.
AnalyzerScore(t, key) == IF Returned(t) THEN Get(task[t].val, key, 0) ELSE 0

\* C5: whenever verify_kyc has computed the scores, from analyzer results whose
\* scores lie in [0,1], overall_score lies in [0,1], status is one of approved,
\* manual_review, rejected, and the response passes its field validation.
C5_OverallScoreInUnitInterval ==
    (fusion.computed /\ ~fusion.locals.raised) =>
        /\ 0 <= fusion.locals.overall_score
        /\ fusion.locals.overall_score <= ONE
        /\ fusion.locals.status \in Statuses
        /\ response.kind = "verdict"
        /\ response.overall_score = fusion.locals.overall_score
        /\ response.status = fusion.locals.status

C5_Witness ==
    /\ fusion.computed
    /\ ~fusion.locals.raised
    /\ fusion.locals.status = "approved"
    /\ fusion.locals.fraud_score = ONE
    /\ AnalyzerScore("face", "match_score") = ONE
    /\ AnalyzerScore("document", "quality_score") = ONE

\* C6: overall_score = 0.3 x liveness score + 0.4 x match score
\* + 0.2 x document quality score + 0.1 x (1 - fraud_score), for every
\* combination of analyzer results (the equation is multiplied by 100).
C6_OverallScoreIsWeightedSum ==
    response.kind = "verdict" =>
        100 * response.overall_score =
            30 * AnalyzerScore("liveness", "liveness_score")
            + 40 * AnalyzerScore("face", "match_score")
            + 20 * AnalyzerScore("document", "quality_score")
            + 10 * (ONE - response.fraud_score)

C6_Witness ==
    /\ response.kind = "verdict"
    /\ AnalyzerScore("liveness", "liveness_score") > 0
    /\ AnalyzerScore("face", "match_score") > 0
    /\ AnalyzerScore("document", "quality_score") > 0
    /\ response.fraud_score > 0
    /\ response.fraud_score < ONE

ApprovalGates(overall, liveness, match) ==
    overall >= Pct(80) /\ liveness >= Pct(70) /\ match >= Pct(60)

\* C7: status is approved exactly when overall_score >= 0.8, liveness score
\* >= 0.7 and match score >= 0.6; otherwise manual_review exactly when
\* overall_score >= 0.6; otherwise rejected.  So overall_score >= 0.8 with a
\* missed gate gives manual_review, and the two scenarios give 0.835 ->
\* approved and 0.55 -> rejected.
C7_StatusThresholds ==
    /\ response.kind = "verdict" =>
         LET o == response.overall_score
             l == response.liveness_score
             m == response.match_score
         IN /\ response.status = "approved" <=> ApprovalGates(o, l, m)
            /\ response.status = "manual_review" <=>
                   (~ApprovalGates(o, l, m) /\ o >= Pct(60))
            /\ response.status = "rejected" <=>
                   (~ApprovalGates(o, l, m) /\ o < Pct(60))
    /\ overall_score_of(Pct(85), Pct(75), Pct(90), 0) = 835 * (ONE \div 1000)
    /\ status_of(835 * (ONE \div 1000), Pct(85), Pct(75)) = "approved"
    /\ overall_score_of(Pct(50), Pct(50), Pct(50), 0) = Pct(55)
    /\ status_of(Pct(55), Pct(50), Pct(50)) = "rejected"

C7_Witness ==
    /\ response.kind = "verdict"
    /\ response.overall_score >= Pct(80)
    /\ response.liveness_score < Pct(70)
    /\ response.status = "manual_review"

\* C8: fraud_score = min(n / 10, 1), n being the number of document fraud
\* indicators plus one when the liveness result carries a spoof type.
C8_FraudScoreCountsSpoofTypeOnce ==
    response.kind = "verdict" =>
        response.fraud_score =
            Min(((Len(DocumentIndicators) + Len(SpoofLabel)) * ONE) \div 10, ONE)

\* C9: reasons is the spoof-type label as one entry, when the liveness result
\* carries one, followed by the document fraud indicators in their order.
C9_ReasonsAreLabelThenDocumentIndicators ==
    response.kind = "verdict" =>
        response.reasons = SpoofLabel \o DocumentIndicators

\* C10: while an analyzer task of the request is still running nothing is
\* assembled, fused or answered, also when another task has already failed;
\* results, scores and response exist only once all three tasks have ended.
C10_FusionAfterAllTasksEnded ==
    /\ (\E t \in Analyzers : task[t].st = "pending") =>
         /\ pc = "analyzing"
         /\ results = <<>>
         /\ ~fusion.computed
         /\ response.kind = "none"
    /\ (results # <<>> \/ fusion.computed \/ response.kind = "verdict") => Analyzed

C10_Witness ==
    /\ response.kind = "verdict"
    /\ task["face"].st = "failed"
    /\ task["liveness"].st = "ok"
    /\ task["document"].st = "ok"


\* C11: a timeout bounds the orchestration: once the analyzers are started
\* the request eventually gets its answer, also when an analyzer task never
\* finishes (the task is cancelled and counts as failed).
C11_AnalysisEventuallyAnswered == (pc = "analyzing") ~> Ended


\* The analyzer call on record and what it returned.
CallOf(fn) == analysis.fn = fn

IsAnalyzerCall ==
    analysis.fn \in {"detect_liveness", "verify_face_match", "verify_document"}

ScoreKey ==
    CASE analysis.fn = "detect_liveness" -> "liveness_score"
      [] analysis.fn = "verify_face_match" -> "match_score"
      [] analysis.fn = "verify_document" -> "quality_score"

HasError == "error" \in DOMAIN analysis.result

\* C12: every analyzer result that carries an error (from detect_liveness,
\* verify_face_match or verify_document) has score 0 and confidence 0 and
\* includes the indicator "verification_failed".
C12_ErrorResultIsZeroAndFlagged ==
    (IsAnalyzerCall /\ HasError) =>
        /\ Get(analysis.result, ScoreKey, 0) = 0
        /\ Get(analysis.result, "confidence", 0) = 0
        /\ Contains(Get(analysis.result, "fraud_indicators", <<>>),
                    "verification_failed")

\* C13: verify_face_match never raises: without a detected face in either
\* image, without an embedding, or when any internal step raises, the result
\* has match_score 0, confidence 0, is_match false and an error; a result
\* without an error comes only from two embeddings compared successfully.
C13_FaceMatchFailureIsErrorResult ==
    CallOf("verify_face_match") =>
        LET a == analysis.args
            failed == \/ a.selfie.faces = <<>> \/ a.id.faces = <<>>
                      \/ ~a.selfie.embeddable \/ ~a.id.embeddable
                      \/ a.comparison.fault # "none"
        IN /\ failed =>
                /\ HasError
                /\ analysis.result.match_score = 0
                /\ analysis.result.confidence = 0
                /\ ~analysis.result.is_match
           /\ ~HasError => ~failed


StatusRank(status) ==
    CASE status = "rejected" -> 0
      [] status = "manual_review" -> 1
      [] status = "approved" -> 2

\* C14: with the match score, the document score and the indicator lists
\* held fixed, a higher liveness score never gives a lower overall_score and
\* never a lower status in the order rejected < manual_review < approved.
C14_MonotoneInLivenessScore ==
    CallOf("fusion") =>
        LET lower == analysis.result.lower
            upper == analysis.result.upper
        IN /\ lower.raised = upper.raised
           /\ ~lower.raised =>
                /\ lower.liveness_score <= upper.liveness_score
                /\ lower.match_score = upper.match_score
                /\ lower.document_quality_score = upper.document_quality_score
                /\ lower.fraud_indicators = upper.fraud_indicators
                /\ lower.overall_score <= upper.overall_score
                /\ StatusRank(lower.status) <= StatusRank(upper.status)

C14_Witness ==
    /\ CallOf("fusion")
    /\ ~analysis.result.lower.raised
    /\ analysis.result.lower.liveness_score < analysis.result.upper.liveness_score
    /\ analysis.result.lower.overall_score < analysis.result.upper.overall_score
    /\ analysis.result.lower.status = "manual_review"
    /\ analysis.result.upper.status = "approved"


\* 1 - min(5 x variance, 1) of a list of detector scores, on hundredths.
DispersionConfidence(scores) ==
    LET K == Len(scores)
        h == [i \in 1..K |-> scores[i] \div Pct(1)]
        mean_of_squares_K2 == K * SeqSum([i \in 1..K |-> h[i] * h[i]])
        square_of_sum == SeqSum(h) * SeqSum(h)
    IN ONE - Min((500 * (mean_of_squares_K2 - square_of_sum)) \div (K * K), ONE)

AllEqual(scores) == \A i, j \in 1..Len(scores) : scores[i] = scores[j]

\* The five detector scores the liveness result was aggregated from.
LivenessDetectorScores ==
    LET m == analysis.result.metadata
    IN <<m.texture_score, m.color_score, m.edge_score,
         ONE - m.reflection_score, m.challenge_score>>

ConfidenceFollowsDispersion(scores) ==
    /\ analysis.result.confidence = DispersionConfidence(scores)
    /\ InUnit(analysis.result.confidence)
    /\ AllEqual(scores) => analysis.result.confidence = ONE

\* C16: in both ensembles (liveness analyzer, anti-spoof module) the reported
\* confidence is 1 - min(5 x variance(detector scores), 1): exactly 1.0 when
\* all detector scores are equal, and always within [0,1].
C16_ConfidenceIsOneMinusDispersion ==
    /\ (CallOf("detect_liveness") /\ ~HasError) =>
           ConfidenceFollowsDispersion(LivenessDetectorScores)
    /\ (CallOf("detect_spoof") /\ ~HasError) =>
           ConfidenceFollowsDispersion(analysis.result.scores)


\* The most frequent label of a list of flagged labels, the earliest in the
\* list among those tied.
EarliestMostFrequent(indicators) ==
    indicators[CHOOSE i \in 1..Len(indicators) :
                 /\ \A j \in 1..Len(indicators) :
                        Count(indicators, indicators[j]) <= Count(indicators, indicators[i])
                 /\ \A j \in 1..(i - 1) :
                        Count(indicators, indicators[j]) < Count(indicators, indicators[i])]

\* C17: the aggregate label of detect_spoof is the most frequent label among
\* the flagged detector outcomes, on a tie the label of the earliest flagged
\* detector in the order print, screen replay, mask, 3D mask, photo quality,
\* and none when no detector is flagged; so it is the same on every run.
C17_AggregateLabelIsEarliestMostFrequent ==
    (CallOf("detect_spoof") /\ ~HasError) =>
        IF analysis.result.indicators = <<>>
        THEN analysis.result.spoof_type = PyNone
        ELSE analysis.result.spoof_type =
                 PyStr(EarliestMostFrequent(analysis.result.indicators))


\* The liveness detectors that ran on the image and whose body raised.
FailedLivenessDetectors ==
    {d \in analysis.args.failing \ {"model"} :
        d = "challenge" => analysis.args.challenged}

\* The score the liveness result records for detector d.
RecordedScore(d) ==
    CASE d = "texture" -> analysis.result.metadata.texture_score
      [] d = "color" -> analysis.result.metadata.color_score
      [] d = "edge" -> analysis.result.metadata.edge_score
      [] d = "reflection" -> analysis.result.metadata.reflection_score
      [] d = "challenge" -> analysis.result.metadata.challenge_score

\* A failing anti-spoof method leaves the ensemble running and counts with
\* score 0.0, not flagged.
FailedSpoofMethodsAreNeutral ==
    (CallOf("detect_spoof") /\ analysis.args.bbox_ok) =>
        /\ ~HasError
        /\ \A i \in 1..Len(detection_methods) :
              analysis.args.readings[detection_methods[i]].fails =>
                  /\ analysis.result.scores[i] = 0
                  /\ ~Contains(analysis.result.indicators,
                               spoof_type_of(detection_methods[i]))

\* C18 as stated: in both ensembles a detector that fails internally does not
\* abort the ensemble and contributes score 0.0, not flagged; this holds for
\* the five anti-spoof detectors and for the liveness detectors texture,
\* color, edge, reflection and challenge.
C18_FailedDetectorContributesZero ==
    /\ FailedSpoofMethodsAreNeutral
    /\ (CallOf("detect_liveness") /\ analysis.args.readable) =>
          /\ ~HasError
          /\ \A d \in FailedLivenessDetectors : RecordedScore(d) = 0

\* C18 amended: a detector that fails internally does not abort its
\* ensemble; a failing anti-spoof detector contributes score 0.0, not
\* flagged; a failing liveness detector contributes 0.5 (texture, color,
\* edge, challenge) or reflection score 0.0, which enters the weighted sum
\* as its complement 1.0.
C18_FailedDetectorContributesItsFallback ==
    /\ FailedSpoofMethodsAreNeutral
    /\ (CallOf("detect_liveness") /\ analysis.args.readable) =>
          /\ ~HasError
          /\ \A d \in FailedLivenessDetectors :
                RecordedScore(d) = IF d = "reflection" THEN 0 ELSE Pct(50)
          /\ LET m == analysis.result.metadata
             IN 200 * analysis.result.liveness_score - 100 * m.model_score =
                    25 * m.texture_score + 20 * m.color_score + 20 * m.edge_score
                    + 15 * (ONE - m.reflection_score) + 20 * m.challenge_score

C18_Witness ==
    /\ CallOf("detect_liveness")
    /\ analysis.args.readable
    /\ analysis.args.challenged
    /\ analysis.args.failing = DetectorNames
    /\ analysis.args.texture_score = Pct(90)
    /\ analysis.result.metadata.texture_score = Pct(50)
    /\ analysis.result.metadata.reflection_score = 0
    /\ analysis.result.liveness_score = 5375 * (ONE \div 10000)


\* 100 x the weighted sum of the five detector scores of the liveness result.
WeightedDetectorSum100 ==
    LET m == analysis.result.metadata
    IN 25 * m.texture_score + 20 * m.color_score + 20 * m.edge_score
       + 15 * (ONE - m.reflection_score) + 20 * m.challenge_score

\* C19 as stated: liveness_score is the weighted sum 0.25 x texture
\* + 0.20 x color + 0.20 x edge + 0.15 x (1 - reflection) + 0.20 x challenge
\* with no other term, and is_live is true exactly when it is >= 0.7.
C19_LivenessScoreIsWeightedSum ==
    (CallOf("detect_liveness") /\ ~HasError) =>
        /\ 100 * analysis.result.liveness_score = WeightedDetectorSum100
        /\ analysis.result.is_live <=> (WeightedDetectorSum100 >= 100 * Pct(70))

\* C19 amended: liveness_score is the mean of that weighted sum and the
\* score of the model-based detection, and is_live is true exactly when
\* liveness_score is >= 0.7.
C19_LivenessScoreIsMeanOfWeightedSumAndModel ==
    (CallOf("detect_liveness") /\ ~HasError) =>
        /\ 200 * analysis.result.liveness_score =
               WeightedDetectorSum100 + 100 * analysis.result.metadata.model_score
        /\ analysis.result.is_live <=> (analysis.result.liveness_score >= Pct(70))

C19_Witness ==
    /\ CallOf("detect_liveness")
    /\ ~HasError
    /\ analysis.args.failing = {}
    /\ WeightedDetectorSum100 >= 100 * Pct(70)
    /\ analysis.result.metadata.model_score = Pct(50)
    /\ ~analysis.result.is_live

\* C20: the liveness spoof-type label follows the first matching rule in the
\* order printed_photo (edge < 0.3 and texture < 0.3), screen_replay
\* (reflection > 0.1), mask (color < 0.3), 3d_mask (texture > 0.8 and
\* color > 0.8), else none; edge 0.2, texture 0.2, reflection 0.05,
\* color 0.9 gives printed_photo.
C20_SpoofTypeByFirstMatchingRule ==
    /\ CallOf("_detect_spoof_type") =>
          LET a == analysis.args
              printed == a.edge_score < Pct(30) /\ a.texture_score < Pct(30)
              replay == a.reflection_score > Pct(10)
              mask == a.color_score < Pct(30)
              mask3d == a.texture_score > Pct(80) /\ a.color_score > Pct(80)
              label == analysis.result
          IN /\ printed => label = PyStr("printed_photo")
             /\ (~printed /\ replay) => label = PyStr("screen_replay")
             /\ (~printed /\ ~replay /\ mask) => label = PyStr("mask")
             /\ (~printed /\ ~replay /\ ~mask /\ mask3d) => label = PyStr("3d_mask")
             /\ (~printed /\ ~replay /\ ~mask /\ ~mask3d) => label = PyNone
             /\ (a.edge_score = Pct(20) /\ a.texture_score = Pct(20)
                 /\ a.reflection_score = Pct(5) /\ a.color_score = Pct(90))
                    => label = PyStr("printed_photo")
    /\ (CallOf("detect_liveness") /\ ~HasError) =>
          LET m == analysis.result.metadata
          IN (m.edge_score < Pct(30) /\ m.texture_score < Pct(30)) =>
                 analysis.result.spoof_type = PyStr("printed_photo")

C20_Witness ==
    /\ CallOf("_detect_spoof_type")
    /\ analysis.args.edge_score = Pct(20)
    /\ analysis.args.texture_score = Pct(20)
    /\ analysis.args.reflection_score = Pct(20)
    /\ analysis.args.color_score = Pct(20)
    /\ analysis.result = PyStr("printed_photo")


\* The conditions on the arguments of the _validate_document call on record.
NoCriticalIndicator ==
    \A i \in 1..Len(analysis.args.fraud_indicators) :
        analysis.args.fraud_indicators[i] \notin
            {"expired_document", "missing_document_number", "missing_name",
             "possible_tampering"}

QualitySuffices == analysis.args.quality_score >= Pct(40)

WithinIndicatorCeiling == Len(analysis.args.fraud_indicators) <= 2

\* C21 as stated: _validate_document returns valid exactly when no critical
\* indicator is present, the quality score is >= 0.4, no required field of
\* the detected document type is absent and there are at most 2 fraud
\* indicators; nothing else makes a document invalid.
C21_ValidExactlyWhenFourConditionsHold ==
    CallOf("_validate_document") =>
        (analysis.result <=>
            /\ NoCriticalIndicator
            /\ QualitySuffices
            /\ \A f \in document_fields(analysis.args.document_type) :
                  f \in analysis.args.extracted_data.fields
            /\ WithinIndicatorCeiling)

\* C21 amended: _validate_document returns valid exactly when no critical
\* indicator is present, the quality score is >= 0.4, neither name nor
\* document_number is a field of the document type while missing from the
\* extracted data, the extracted date of birth, when there is one that
\* parses, is not in the future, and there are at most 2 fraud indicators.
C21_ValidExactlyWhenFiveConditionsHold ==
    CallOf("_validate_document") =>
        LET a == analysis.args
            required == IF a.document_type = "passport" THEN {"document_number"}
                        ELSE IF a.document_type \in {"driver_license", "id_card"}
                        THEN {"name"}
                        ELSE {}
        IN analysis.result <=>
            /\ NoCriticalIndicator
            /\ QualitySuffices
            /\ required \subseteq a.extracted_data.fields
            /\ ~("date_of_birth" \in a.extracted_data.fields
                  /\ a.extracted_data.dob = "future")
            /\ WithinIndicatorCeiling

C21_Witness ==
    /\ CallOf("_validate_document")
    /\ analysis.args.document_type = "passport"
    /\ analysis.args.extracted_data.fields = {"document_number", "date_of_birth"}
    /\ analysis.args.extracted_data.dob = "past"
    /\ Len(analysis.args.fraud_indicators) = 2
    /\ analysis.args.quality_score = Pct(40)
    /\ analysis.result


Consistent(m) ==
    metrics[m].total_inferences = metrics[m].success_count + metrics[m].error_count

Recording(t) == worker[t].op = "record_inference"

\* C22: the metrics collector is thread-safe: once the record_inference
\* calls made have all returned, each model's total_inferences is the number
\* of calls made for it and is success_count + error_count (no update is
\* lost), and a reader never finds total_inferences different from
\* success_count + error_count.
C22_NoLostUpdateNoTornRead ==
    /\ (\A t \in MetricThreads : ~Recording(t)) =>
          \A m \in ModelNames :
              metrics[m].total_inferences = calls[m] /\ Consistent(m)
    /\ \A t \in MetricThreads :
          worker[t].pc \in {"read", "sum"} => \A m \in ModelNames : Consistent(m)
    /\ \A t \in MetricThreads :
          (worker[t].op = "get_model_metrics" /\ worker[t].observed.seen) =>
              /\ worker[t].observed.total_inferences =
                     metrics[worker[t].model_name].total_inferences
              /\ worker[t].observed.success_count =
                     metrics[worker[t].model_name].success_count

C22_Witness ==
    /\ \A t \in MetricThreads : worker[t].pc = "idle"
    /\ metrics["face_recognition"].total_inferences = 2
    /\ metrics["face_recognition"].success_count = 1
    /\ metrics["face_recognition"].error_count = 1
    /\ calls["face_recognition"] = 2

\* C24: get_all_metrics and get_health_status always return and release the
\* collector lock, also after a record_inference: a thread inside either is
\* never left waiting for the lock it holds itself, which nothing would
\* ever release, and which would block every later record_inference.
C24_MetricsReadersNeverSelfDeadlock ==
    \A t \in MetricThreads :
        worker[t].op \in {"get_all_metrics", "get_health_status"} =>
            ~(worker[t].pc = "acquire" /\ lock = t)


\* C23: when one of the three analyzers is replaced by the degraded
\* substitute (score 0, fraud_indicators ["verification_failed"]), the status
\* of the verdict is never approved, whatever the other two return.
C23_DegradedAnalyzerNeverApproved ==
    (response.kind = "verdict"
     /\ \E i \in 1..Len(results) : results[i] = degraded_result) =>
        response.status # "approved"

C23_Witness ==
    /\ response.kind = "verdict"
    /\ task["document"].st = "failed"
    /\ results[3] = degraded_result
    /\ response.liveness_score >= Pct(70)
    /\ response.match_score = ONE
    /\ response.overall_score >= Pct(60)
    /\ response.status = "manual_review"


\* C28: whenever verify_kyc gives status approved, the liveness result has
\* is_live true and the face-match result has is_match true, whatever value
\* FACE_MATCH_THRESHOLD is configured with.
C28_ApprovedImpliesLiveAndMatch ==
    (CallOf("verify_kyc") /\ ~analysis.result.raised
     /\ analysis.result.status = "approved") =>
        /\ analysis.args.liveness_result.is_live
        /\ analysis.args.face_match_result.is_match


\* C29: detect_liveness never returns the spoof type 3d_mask: the color
\* score is always one of 0.2, 0.5, 0.8, so the rule texture > 0.8 and
\* color > 0.8 never matches, and the label is printed_photo, screen_replay,
\* mask or none.
C29_LivenessNeverLabels3dMask ==
    (CallOf("detect_liveness") /\ ~HasError) =>
        /\ analysis.result.metadata.color_score \in {Pct(20), Pct(50), Pct(80)}
        /\ analysis.result.spoof_type # PyStr("3d_mask")
        /\ analysis.result.spoof_type \in
               {PyStr("printed_photo"), PyStr("screen_replay"), PyStr("mask"),
                PyNone}

C29_Witness ==
    /\ CallOf("detect_liveness")
    /\ ~HasError
    /\ analysis.result.metadata.texture_score = Pct(90)
    /\ analysis.result.metadata.color_score = Pct(80)
    /\ analysis.result.metadata.reflection_score = Pct(5)
    /\ analysis.result.spoof_type = PyNone


\* C25: with redis answering, the requests of one client passed to the
\* handler since that client's key last expired never exceed
\* RATE_LIMIT_PER_MINUTE.
C25_AdmittedWithinLimit ==
    \A c \in ClientIds : admitted[c] <= RATE_LIMIT_PER_MINUTE

\* C26: a rate-limit key that exists has a time-to-live.
C26_EveryKeyExpires ==
    \A c \in ClientIds : redis[c].exists => redis[c].expires

\* C27: call_next is invoked at most once for each request.
C27_CallNextAtMostOnce ==
    \A r \in Requests : req[r].calls <= 1

\* C30: the constructor of each model runs at most once, and all callers
\* of one getter receive the same instance.
C30_HandleConstructedOnce ==
    /\ \A k \in ModelKinds : constructed[k] <= 1
    /\ \A t1, t2 \in Callers :
           (/\ caller[t1].pc = "returned"
            /\ caller[t2].pc = "returned"
            /\ caller[t1].kind = caller[t2].kind)
           => caller[t1].received = caller[t2].received

=============================================================================
